---- MODULE Spec2Model ----
(***************************************************************************)
(* Model of server/core_account.go: GetAccount, GetAccounts, UpdateAccount *)
(* and DeleteAccount over the users, user_device, leaderboard-record,      *)
(* group-membership and user_tombstone tables.                             *)
(*                                                                         *)
(* Text values are sequences of one-character strings (<<>> is ""), so a   *)
(* NULL column (Valid = FALSE) and an empty string stay distinct until a   *)
(* read converts them.  The store is serializable: a DeleteAccount         *)
(* transaction works on its own pending writes, is told of a conflicting   *)
(* commit by a retryable error on its next statement, and publishes its    *)
(* writes in one step at RELEASE SAVEPOINT.                                *)
(***************************************************************************)
EXTENDS Integers, Sequences, FiniteSets, TLC

\* ------------------------------------------------------------------ bounds
NumDeleters == 2        \* DeleteAccount calls
MaxUpdates  == 2        \* UPDATE statements executed (also the clock of now())
MaxInjected == 1        \* retryable errors raised by the store on its own
MaxIDs      == 2        \* length of the id list handed to GetAccounts

\* ------------------------------------------------------------------ values
UserIDs   == {"id1", "id2"}
ReadIDs   == UserIDs \cup {"id3"}      \* id3 never has a row
Deleters  == 1..NumDeleters

NullStr   == [Valid |-> FALSE, String |-> <<>>]
Str(s)    == [Valid |-> TRUE, String |-> s]

Absent    == [present |-> FALSE, value |-> <<>>]
Present(s) == [present |-> TRUE, value |-> s]

NoRow     == [exists |-> FALSE]

\* A time.Time: the zero value (January 1, year 1, whose Unix() is far below 0
\* and outside the model's integers) or seconds and nanoseconds since the epoch.
ZeroTime  == [zero |-> TRUE, sec |-> 0, nsec |-> 0]
At(sec, nsec) == [zero |-> FALSE, sec |-> sec, nsec |-> nsec]

\* pq.NullTime
NullTime  == [Valid |-> FALSE, Time |-> ZeroTime]
Time(t)   == [Valid |-> TRUE, Time |-> t]

nil       == "nil"
ErrAccountNotFound == "account not found"

VARIABLES
    users,      \* users table: id -> row or NoRow
    lb,         \* ids owning leaderboard records
    grp,        \* ids holding group memberships
    tomb,       \* user_tombstone: id -> number of rows
    now,        \* the store's clock: UPDATE statements executed so far
    pc,         \* each DeleteAccount call's position
    arg,        \* each DeleteAccount call's arguments
    tx,         \* each DeleteAccount call's open transaction
    stale,      \* transactions a later commit has invalidated
    res,        \* each DeleteAccount call's return value
    injected,   \* retryable errors the store raised on its own
    ret,        \* the last UpdateAccount call's return value
    obs,        \* the last observed UpdateAccount call: arguments, table before and after
    got         \* the last GetAccount or GetAccounts call: arguments, query and result

vars == <<users, lb, grp, tomb, now, pc, arg, tx, stale, res, injected, ret, obs, got>>
store == <<users, lb, grp, tomb>>
updVars == <<now, ret, obs, got>>

\* ------------------------------------------------------- DeleteAccount
\* The errors the store raises for a statement of DeleteAccount.
StoreErrors == {"ErrBeginTx", "ErrDeleteUser", "ErrLeaderboard", "ErrGroup", "ErrTombstone"}

\* A transaction's pending effects, the statements its current attempt ran, the
\* non-retryable error the store raised in it, and whether it was restarted.
NoTx == [count |-> 0, lbPurged |-> FALSE, grpPurged |-> FALSE,
         tombInserted |-> 0, trace |-> <<>>, fault |-> nil, retried |-> FALSE]

\* The closure of ExecuteInTx either returns or goes on to its next statement.
Return(e) == [returns |-> TRUE, err |-> e, next |-> "Release"]
Goto(l)   == [returns |-> FALSE, err |-> nil, next |-> l]

\* The rows of users a transaction sees: the committed rows less its own delete.
TxSeesUser(p, id) == users[id].exists /\ tx[p].count = 0

\* DELETE FROM users WHERE id = $1: the affected-row count.
DeleteUser(p, id) == IF TxSeesUser(p, id) THEN 1 ELSE 0

\* DELETE of the leaderboard records the account owns.
LeaderboardRecordsDeleteAll(set, id) == set \ {id}

\* Removal of the account's group memberships.
GroupDeleteAll(set, id) == set \ {id}

\* Mutant: a plain INSERT into a table without the unique key.
TombstoneInsert_Plain(existing) == 1

\* INSERT INTO user_tombstone ... ON CONFLICT(user_id) DO NOTHING: rows inserted.
TombstoneInsert(existing) == IF existing > 0 THEN 0 ELSE 1

\* Mutant: a zero count is reported as an error.
AfterDeleteUser_NotFound(err, count) ==
    IF err # nil THEN Return(err)
    ELSE IF count = 0 THEN Return(ErrAccountNotFound)
    ELSE Goto("Leaderboard")

\* Mutant: the count is not looked at.
AfterDeleteUser_NoCountCheck(err, count) ==
    IF err # nil THEN Return(err) ELSE Goto("Leaderboard")

\* The closure after DeleteUser.
AfterDeleteUser(err, count) ==
    IF err # nil THEN Return(err)
    ELSE IF count = 0 THEN Return(nil)
    ELSE Goto("Leaderboard")

\* Mutant: the closure returns before the group purge.
AfterLeaderboard_SkipsGroup(err) == IF err # nil THEN Return(err) ELSE Return(nil)

\* Mutant: the leaderboard purge's error is dropped.
AfterLeaderboard_IgnoresError(err) == Goto("Group")

\* The closure after LeaderboardRecordsDeleteAll.
AfterLeaderboard(err) == IF err # nil THEN Return(err) ELSE Goto("Group")

\* Mutant: the group purge's error is dropped.
AfterGroup_IgnoresError(err, recorded) ==
    IF recorded THEN Goto("Tombstone") ELSE Return(nil)

\* Mutant: the tombstone is written whatever recorded is.
AfterGroup_AlwaysRecords(err, recorded) ==
    IF err # nil THEN Return(err) ELSE Goto("Tombstone")

\* The closure after GroupDeleteAll.
AfterGroup(err, recorded) ==
    IF err # nil THEN Return(err)
    ELSE IF recorded THEN Goto("Tombstone")
    ELSE Return(nil)

\* The closure after the tombstone insert.
AfterTombstone(err) == IF err # nil THEN Return(err) ELSE Return(nil)

\* db.BeginTx and the SAVEPOINT that opens ExecuteInTx.  `existed` keeps whether
\* the account row was there when the call started.
DeleteAccountBegin(p, id, recorded) ==
    /\ pc[p] = "idle"
    /\ IF p = 1 THEN TRUE ELSE pc[p - 1] # "idle"
    /\ arg' = [arg EXCEPT ![p] = [id |-> id, recorded |-> recorded,
                                  existed |-> users[id].exists]]
    /\ \/ /\ pc' = [pc EXCEPT ![p] = "DeleteUser"]
          /\ UNCHANGED res
       \/ /\ pc' = [pc EXCEPT ![p] = "done"]
          /\ res' = [res EXCEPT ![p] = "ErrBeginTx"]
    /\ UNCHANGED <<store, updVars, tx, stale, injected>>

\* A statement of the closure has run with the store's `err` and the closure does
\* `k`.  Returning a non-retryable error makes ExecuteInTx roll the transaction
\* back, and DeleteAccount logs and returns the error; returning nil leads to
\* RELEASE SAVEPOINT.
Continue(p, k, err, effects) ==
    LET fault == IF err # nil THEN err ELSE tx[p].fault IN
    IF k.returns /\ k.err # nil
    THEN /\ pc' = [pc EXCEPT ![p] = "done"]
         /\ res' = [res EXCEPT ![p] = k.err]
         /\ tx' = [tx EXCEPT ![p] = [NoTx EXCEPT !.fault = fault]]
    ELSE /\ pc' = [pc EXCEPT ![p] = k.next]
         /\ tx' = [tx EXCEPT ![p] = [effects EXCEPT !.fault = fault]]
         /\ UNCHANGED res

\* DeleteUser inside the closure, and the count check.
StepDeleteUser(p) ==
    /\ pc[p] = "DeleteUser"
    /\ ~stale[p]
    /\ \E err \in {nil, "ErrDeleteUser"} :
         LET count == IF err = nil THEN DeleteUser(p, arg[p].id) ELSE 0 IN
           Continue(p, AfterDeleteUser(err, count), err,
                    [tx[p] EXCEPT !.count = count, !.trace = Append(@, "DeleteUser")])
    /\ UNCHANGED <<store, updVars, arg, stale, injected>>

StepLeaderboard(p) ==
    /\ pc[p] = "Leaderboard"
    /\ ~stale[p]
    /\ \E err \in {nil, "ErrLeaderboard"} :
           Continue(p, AfterLeaderboard(err), err,
                    [tx[p] EXCEPT !.lbPurged = (err = nil), !.trace = Append(@, "Leaderboard")])
    /\ UNCHANGED <<store, updVars, arg, stale, injected>>

StepGroup(p) ==
    /\ pc[p] = "Group"
    /\ ~stale[p]
    /\ \E err \in {nil, "ErrGroup"} :
           Continue(p, AfterGroup(err, arg[p].recorded), err,
                    [tx[p] EXCEPT !.grpPurged = (err = nil), !.trace = Append(@, "Group")])
    /\ UNCHANGED <<store, updVars, arg, stale, injected>>

\* Mutant: the insert goes to the store directly, not through the transaction.
StepTombstone_OutsideTx(p) ==
    /\ pc[p] = "Tombstone"
    /\ ~stale[p]
    /\ tomb' = [tomb EXCEPT ![arg[p].id] = @ + TombstoneInsert(@)]
    /\ Continue(p, AfterTombstone(nil), nil, [tx[p] EXCEPT !.trace = Append(@, "Tombstone")])
    /\ UNCHANGED <<users, lb, grp, updVars, arg, stale, injected>>

\* The tombstone insert inside the closure, under `if recorded`.
StepTombstone(p) ==
    /\ pc[p] = "Tombstone"
    /\ ~stale[p]
    /\ \E err \in {nil, "ErrTombstone"} :
           Continue(p, AfterTombstone(err), err,
                    [tx[p] EXCEPT !.tombInserted =
                                      IF err = nil THEN TombstoneInsert(tomb[arg[p].id]) ELSE 0,
                                  !.trace = Append(@, "Tombstone")])
    /\ UNCHANGED <<store, updVars, arg, stale, injected>>

InBody(p) == pc[p] \in {"DeleteUser", "Leaderboard", "Group", "Tombstone", "Release"}

\* Mutant: DeleteUser runs before ExecuteInTx, outside the closure.
RetryEntry_AfterDelete == "Leaderboard"

\* Where ExecuteInTx re-enters the closure after ROLLBACK TO SAVEPOINT.
RetryEntry == "DeleteUser"

\* A retryable error on the next statement: ROLLBACK TO SAVEPOINT, run the closure again.
RetryOnConflict(p) ==
    /\ InBody(p)
    /\ \/ /\ stale[p]
          /\ UNCHANGED injected
       \/ /\ ~stale[p]
          /\ injected < MaxInjected
          /\ injected' = injected + 1
    /\ tx' = [tx EXCEPT ![p] = [NoTx EXCEPT !.retried = TRUE]]
    /\ stale' = [stale EXCEPT ![p] = FALSE]
    /\ pc' = [pc EXCEPT ![p] = RetryEntry]
    /\ UNCHANGED <<store, updVars, arg, res>>

\* The open transactions that have read id's rows.
Readers(id) ==
    {q \in Deleters : /\ arg[q].id = id
                      /\ pc[q] \in {"Leaderboard", "Group", "Tombstone", "Release"}}

\* RELEASE SAVEPOINT and Commit: the closure returned nil.
Release(p) ==
    /\ pc[p] = "Release"
    /\ ~stale[p]
    /\ LET id == arg[p].id
           wrote == tx[p].count > 0 \/ tx[p].lbPurged \/ tx[p].grpPurged \/ tx[p].tombInserted > 0
       IN
         /\ users' = IF tx[p].count > 0 THEN [users EXCEPT ![id] = NoRow] ELSE users
         /\ lb' = IF tx[p].lbPurged THEN LeaderboardRecordsDeleteAll(lb, id) ELSE lb
         /\ grp' = IF tx[p].grpPurged THEN GroupDeleteAll(grp, id) ELSE grp
         /\ tomb' = [tomb EXCEPT ![id] = @ + tx[p].tombInserted]
         /\ stale' = [q \in Deleters |-> stale[q] \/ (wrote /\ q # p /\ q \in Readers(id))]
    /\ pc' = [pc EXCEPT ![p] = "done"]
    /\ res' = [res EXCEPT ![p] = nil]
    /\ UNCHANGED <<updVars, arg, tx, injected>>

DeleteAccount(p) ==
    \/ \E id \in UserIDs, recorded \in BOOLEAN : DeleteAccountBegin(p, id, recorded)
    \/ StepDeleteUser(p)
    \/ StepLeaderboard(p)
    \/ StepGroup(p)
    \/ StepTombstone(p)
    \/ RetryOnConflict(p)
    \/ Release(p)

\* ------------------------------------------------------- GetAccount
StoreFailure == [Code |-> "XX000", Message |-> "internal error"]
NoPqError == [Code |-> "00000", Message |-> ""]
NoGot == [called |-> FALSE]

\* A nil Tracker, or one with the users that hold a notifications stream.
NoTracker == [present |-> FALSE, online |-> {}]
Tracker(online) == [present |-> TRUE, online |-> online]
StreamExists(tracker, userID) == userID \in tracker.online

RowOf(rows, id) == IF id \in DOMAIN rows THEN rows[id] ELSE NoRow

\* t.Unix(); of the zero Time it is not 0.
Unix(t) == t.sec
UnixIsZero(t) == ~t.zero /\ Unix(t) = 0

\* devices = append(devices, &api.AccountDevice{Id: deviceID}) for each id
Devices(deviceIDs) == [i \in DOMAIN deviceIDs |-> [Id |-> deviceIDs[i]]]

NoTimestamp == [present |-> FALSE, Seconds |-> 0]

\* Mutant: the epoch is a verification time like any other.
VerifyTimestamp_KeepsEpoch(verifyTime) ==
    IF verifyTime.Valid
    THEN [present |-> TRUE, Seconds |-> Unix(verifyTime.Time)]
    ELSE NoTimestamp

\* verifyTimestamp, nil unless the column is valid and not at Unix second 0.
VerifyTimestamp(verifyTime) ==
    IF verifyTime.Valid /\ ~UnixIsZero(verifyTime.Time)
    THEN [present |-> TRUE, Seconds |-> Unix(verifyTime.Time)]
    ELSE NoTimestamp

\* Mutant: two columns are scanned into each other's variable.
GetAccount_SwapsColumns(rows, tracker, userID) ==
    LET row == RowOf(rows, userID) IN
    IF ~row.exists
    THEN [err |-> ErrAccountNotFound]
    ELSE [err |-> nil,
          Id |-> userID,
          Username |-> row.username.String,
          DisplayName |-> row.display_name.String,
          AvatarUrl |-> row.avatar_url.String,
          LangTag |-> row.location.String,
          Location |-> row.lang_tag.String,
          Timezone |-> row.timezone.String,
          Metadata |-> row.metadata.String,
          FacebookId |-> row.facebook_id.String,
          GoogleId |-> row.google_id.String,
          GamecenterId |-> row.gamecenter_id.String,
          SteamId |-> row.steam_id.String,
          EdgeCount |-> row.edge_count,
          CreateTime |-> row.create_time,
          UpdateTime |-> row.update_time,
          Online |-> tracker.present /\ StreamExists(tracker, userID),
          Wallet |-> row.wallet.String,
          Email |-> row.email.String,
          Devices |-> Devices(row.devices),
          CustomId |-> row.custom_id.String,
          VerifyTime |-> VerifyTimestamp(row.verify_time)]

\* The Scan of the one row with the id into NullString and NullTime variables
\* and the api.Account built from them, or ErrAccountNotFound for sql.ErrNoRows.
\* create_time and update_time are never NULL and hold whole seconds.
GetAccount(rows, tracker, userID) ==
    LET row == RowOf(rows, userID) IN
    IF ~row.exists
    THEN [err |-> ErrAccountNotFound]
    ELSE [err |-> nil,
          Id |-> userID,
          Username |-> row.username.String,
          DisplayName |-> row.display_name.String,
          AvatarUrl |-> row.avatar_url.String,
          LangTag |-> row.lang_tag.String,
          Location |-> row.location.String,
          Timezone |-> row.timezone.String,
          Metadata |-> row.metadata.String,
          FacebookId |-> row.facebook_id.String,
          GoogleId |-> row.google_id.String,
          GamecenterId |-> row.gamecenter_id.String,
          SteamId |-> row.steam_id.String,
          EdgeCount |-> row.edge_count,
          CreateTime |-> row.create_time,
          UpdateTime |-> row.update_time,
          Online |-> tracker.present /\ StreamExists(tracker, userID),
          Wallet |-> row.wallet.String,
          Email |-> row.email.String,
          Devices |-> Devices(row.devices),
          CustomId |-> row.custom_id.String,
          VerifyTime |-> VerifyTimestamp(row.verify_time)]

\* A GetAccount call: the query with its one parameter, and what it returns,
\* the store's own failure included.
CallGetAccount(tracker, userID) ==
    /\ \E a \in {GetAccount(users, tracker, userID), [err |-> StoreFailure.Message]} :
         got' = [called |-> TRUE, op |-> "GetAccount", ids |-> <<userID>>,
                 sent |-> TRUE, query |-> [in |-> <<1>>, parameters |-> <<userID>>],
                 err |-> a.err,
                 accounts |-> IF a.err = nil THEN <<a>> ELSE <<>>]
    /\ UNCHANGED <<store, now, ret, obs, pc, arg, tx, stale, res, injected>>

\* ------------------------------------------------------- GetAccounts
SyntaxError == [Code |-> "42601", Message |-> "syntax error at or near \")\""]

\* Mutant: every placeholder is "$1".
AccountsQuery_FirstPlaceholder(userIDs) ==
    [in |-> [i \in DOMAIN userIDs |-> 1], parameters |-> userIDs]

\* statements and parameters: "$1", ..., "$n" and the ids, in the order given.
\* The query is "... WHERE u.id IN (" + strings.Join(statements, ",") + ")".
AccountsQuery(userIDs) ==
    [in |-> [i \in DOMAIN userIDs |-> i], parameters |-> userIDs]

\* The orders in which a set of rows can come back.
Orders(S) ==
    {o \in [1..Cardinality(S) -> S] : \A i, j \in DOMAIN o : i # j => o[i] # o[j]}

\* db.QueryContext: what the store can answer.  An IN list without elements is
\* a syntax error to PostgreSQL and an empty tuple to CockroachDB; otherwise the
\* rows whose id is in the list come back once each, in any order.
QueryAccounts(rows, q) ==
    IF Len(q.in) = 0
    THEN {[err |-> SyntaxError, rows |-> <<>>], [err |-> NoPqError, rows |-> <<>>]}
    ELSE LET match == {id \in DOMAIN rows :
                          /\ rows[id].exists
                          /\ \E i \in DOMAIN q.in : q.parameters[q.in[i]] = id}
         IN {[err |-> NoPqError, rows |-> [k \in DOMAIN o |-> [id |-> o[k], row |-> rows[o[k]]]]] :
                o \in Orders(match)}

\* rows.Scan of one returned row and the api.Account appended for it.
ScanAccount(r, tracker) ==
    [err |-> nil,
     Id |-> r.id,
     Username |-> r.row.username.String,
     DisplayName |-> r.row.display_name.String,
     AvatarUrl |-> r.row.avatar_url.String,
     LangTag |-> r.row.lang_tag.String,
     Location |-> r.row.location.String,
     Timezone |-> r.row.timezone.String,
     Metadata |-> r.row.metadata.String,
     FacebookId |-> r.row.facebook_id.String,
     GoogleId |-> r.row.google_id.String,
     GamecenterId |-> r.row.gamecenter_id.String,
     SteamId |-> r.row.steam_id.String,
     EdgeCount |-> r.row.edge_count,
     CreateTime |-> r.row.create_time,
     UpdateTime |-> r.row.update_time,
     Online |-> tracker.present /\ StreamExists(tracker, r.id),
     Wallet |-> r.row.wallet.String,
     Email |-> r.row.email.String,
     Devices |-> Devices(r.row.devices),
     CustomId |-> r.row.custom_id.String,
     VerifyTime |-> VerifyTimestamp(r.row.verify_time)]

\* GetAccounts(userIDs): the query is built and sent whatever the length of the
\* list; the store's error is returned as it is, the rows are scanned in turn.
GetAccounts(tracker, userIDs) ==
    LET q == AccountsQuery(userIDs) IN
    /\ \E r \in QueryAccounts(users, q) \cup {[err |-> StoreFailure, rows |-> <<>>]} :
         got' = [called |-> TRUE, op |-> "GetAccounts", ids |-> userIDs,
                 sent |-> TRUE, query |-> q,
                 err |-> IF r.err = NoPqError THEN nil ELSE r.err.Message,
                 accounts |-> [k \in DOMAIN r.rows |-> ScanAccount(r.rows[k], tracker)]]
    /\ UNCHANGED <<store, now, ret, obs, pc, arg, tx, stale, res, injected>>

\* ------------------------------------------------------- UpdateAccount
ErrUsernameInvalid == "Username invalid, no spaces or control characters allowed."
ErrNoFields == "No fields to update."
ErrUsernameInUse == "Username is already in use."

dbErrorUniqueViolation == "23505"
UniqueViolation == [Code |-> dbErrorUniqueViolation, Message |-> "users_username_key"]
NoObs == [seen |-> FALSE]

\* invalidCharsRegex.MatchString: a whitespace or control character occurs.
InvalidChars(s) == \E i \in DOMAIN s : s[i] \in {" ", "\t", "\n"}

\* Mutant: the username is taken as it comes.
UsernameRejected_Unchecked(username) == FALSE

\* The username check that comes before any clause is built.
UsernameRejected(username) == username # <<>> /\ InvalidChars(username)

\* index, statements and params as UpdateAccount starts.  A statement is a column
\* with the ordinal of its placeholder, 0 for the literal NULL.
NoStatements == [index |-> 1, statements |-> <<>>, params |-> <<>>]

\* statements = append(statements, "col = $index"); params = append(params, v); index++
SetParam(b, col, v) ==
    [index |-> b.index + 1,
     statements |-> Append(b.statements, [col |-> col, placeholder |-> b.index]),
     params |-> Append(b.params, v)]

\* statements = append(statements, "col = NULL")
SetNull(b, col) == [b EXCEPT !.statements = Append(@, [col |-> col, placeholder |-> 0])]

WithUsername(b, username) ==
    IF username # <<>> THEN SetParam(b, "username", username) ELSE b

\* Mutant: an empty value is bound like any other.
WithText_BindsEmpty(b, col, field) ==
    IF field.present THEN SetParam(b, col, field.value) ELSE b

WithText(b, col, field) ==
    IF field.present
    THEN IF field.value = <<>> THEN SetNull(b, col) ELSE SetParam(b, col, field.value)
    ELSE b

\* Mutant: metadata handled like the other optional fields.
WithMetadata_ClearsEmpty(b, field) ==
    IF field.present
    THEN IF field.value = <<>> THEN SetNull(b, "metadata") ELSE SetParam(b, "metadata", field.value)
    ELSE b

WithMetadata(b, field) ==
    IF field.present THEN SetParam(b, "metadata", field.value) ELSE b

\* Mutant: the metadata clause is built first.
BuildStatements_MetadataFirst(in) ==
    WithText(
      WithText(
        WithText(
          WithText(
            WithText(
              WithUsername(WithMetadata(NoStatements, in.metadata), in.username),
              "display_name", in.displayName),
            "timezone", in.timezone),
          "location", in.location),
        "lang_tag", in.langTag),
      "avatar_url", in.avatarURL)

\* The clauses and parameters after the last field has been looked at.
BuildStatements(in) ==
    WithMetadata(
      WithText(
        WithText(
          WithText(
            WithText(
              WithText(
                WithUsername(NoStatements, in.username),
                "display_name", in.displayName),
              "timezone", in.timezone),
            "location", in.location),
          "lang_tag", in.langTag),
        "avatar_url", in.avatarURL),
      in.metadata)

\* The store's SET list applied to one row, left to right.
RECURSIVE ApplyStatements(_, _, _)
ApplyStatements(row, statements, params) ==
    IF statements = <<>> THEN row
    ELSE LET c == Head(statements) IN
         ApplyStatements(
             [row EXCEPT ![c.col] = IF c.placeholder = 0 THEN NullStr
                                    ELSE Str(params[c.placeholder])],
             Tail(statements), params)

\* Mutant: no unique key on username.
UsernameKeyViolated_NoKey(rows, id, row) == FALSE

\* users_username_key: another row holds the username.
UsernameKeyViolated(rows, id, row) ==
    /\ row.username.Valid
    /\ \E o \in UserIDs \ {id} : rows[o].exists /\ rows[o].username = row.username

\* params = append(params, userID) and the query "UPDATE users SET update_time =
\* now(), <statements> WHERE id = $index".
UpdateQuery(b, userID) ==
    [statements |-> b.statements, params |-> Append(b.params, userID), where |-> b.index]

NoQuery == [statements |-> <<>>, params |-> <<>>, where |-> 0]

\* db.ExecContext of the query: the error, the affected-row count and the table
\* afterwards.
ExecUpdate(rows, statements, params, index, t) ==
    LET id == params[index] IN
    IF ~rows[id].exists THEN [err |-> NoPqError, affected |-> 0, rows |-> rows]
    ELSE LET row == [ApplyStatements(rows[id], statements, params) EXCEPT !.update_time = t] IN
         IF UsernameKeyViolated(rows, id, row)
         THEN [err |-> UniqueViolation, affected |-> 0, rows |-> rows]
         ELSE [err |-> NoPqError, affected |-> 1, rows |-> [rows EXCEPT ![id] = row]]

\* Mutant: the store's error is returned as it is.
UpdateError_Untranslated(err) == IF err = NoPqError THEN nil ELSE err.Message

\* The error UpdateAccount returns for the store's error.
UpdateError(err) ==
    IF err = NoPqError THEN nil
    ELSE IF err.Code = dbErrorUniqueViolation /\ err.Message = "users_username_key"
         THEN ErrUsernameInUse
         ELSE err.Message

\* Mutant: an UPDATE that matched no row is reported.
AfterExec_ChecksRows(err, affected) ==
    IF err = NoPqError /\ affected = 0 THEN ErrAccountNotFound ELSE UpdateError(err)

\* `if _, err := db.ExecContext(...); err != nil { ... }; return nil`: the
\* affected-row count is dropped.
AfterExec(err, affected) == UpdateError(err)

\* UpdateAccount(userID, username, displayName, ..., metadata).  `observe` is the
\* caller keeping the arguments, the query sent, the store's own error and the
\* table before and after, as a test reading GetAccount around the call does.
UpdateAccount(userID, in, observe) ==
    LET b == BuildStatements(in)
        q == UpdateQuery(b, userID)
        Returns(e, rows, sent, storeErr) ==
            /\ ret' = e
            /\ obs' = IF observe
                      THEN [seen |-> TRUE, id |-> userID, in |-> in,
                            sent |-> sent, query |-> IF sent THEN q ELSE NoQuery,
                            storeErr |-> storeErr,
                            before |-> users, after |-> rows]
                      ELSE NoObs
    IN
    /\ IF UsernameRejected(in.username)
       THEN /\ Returns(ErrUsernameInvalid, users, FALSE, NoPqError)
            /\ UNCHANGED <<users, now, stale>>
       ELSE IF Len(b.statements) = 0
       THEN /\ Returns(ErrNoFields, users, FALSE, NoPqError)
            /\ UNCHANGED <<users, now, stale>>
       ELSE /\ now < MaxUpdates
            /\ now' = now + 1
            /\ \/ LET r == ExecUpdate(users, q.statements, q.params, q.where, now + 1)
                  IN /\ users' = r.rows
                     /\ stale' = [p \in Deleters |->
                                    stale[p] \/ (r.rows # users /\ p \in Readers(userID))]
                     /\ Returns(AfterExec(r.err, r.affected), r.rows, TRUE, r.err)
               \/ /\ UNCHANGED <<users, stale>>
                  /\ Returns(AfterExec(StoreFailure, 0), users, TRUE, StoreFailure)
    /\ UNCHANGED <<lb, grp, tomb, pc, arg, tx, res, injected, got>>

\* ------------------------------------------------------------------ inputs
Field(vals) == {Absent} \cup {Present(v) : v \in vals}

\* Every combination of the three states of each optional field.
AllInputs ==
    [username : {<<>>, <<"a">>, <<"b">>, <<"a", " ", "b">>},
     displayName : Field({<<>>, <<"d">>}),
     timezone : Field({<<>>, <<"t">>}),
     location : Field({<<>>, <<"l">>}),
     langTag : Field({<<>>, <<"g">>}),
     avatarURL : Field({<<>>, <<"v">>}),
     metadata : Field({<<>>, <<"m">>})]

\* The arguments drawn where calls follow one another.
FewInputs ==
    [username : {<<>>, <<"a">>, <<"b">>, <<"a", " ", "b">>},
     displayName : Field({<<>>}),
     timezone : {Absent},
     location : {Absent},
     langTag : {Absent},
     avatarURL : {Absent},
     metadata : {Absent}]

\* ------------------------------------------------------------------ Init
Row(u, cols) ==
    [exists |-> TRUE, username |-> Str(u),
     display_name |-> cols[1], timezone |-> cols[2], location |-> cols[3],
     lang_tag |-> cols[4], avatar_url |-> cols[5],
     metadata |-> Str(<<"{", "}">>), wallet |-> Str(<<"{", "}">>),
     email |-> NullStr, facebook_id |-> NullStr, google_id |-> Str(<<"g">>),
     gamecenter_id |-> NullStr, steam_id |-> NullStr, custom_id |-> Str(<<"c">>),
     edge_count |-> 1, create_time |-> 0, update_time |-> 0,
     verify_time |-> NullTime, devices |-> <<"dev1">>]

SomeCols == <<Str(<<"o">>), NullStr, Str(<<"o">>), NullStr, Str(<<"o">>)>>
DrawnCols == {SomeCols, [i \in 1..5 |-> NullStr], [i \in 1..5 |-> Str(<<"o">>)]}

SeedUsers ==
    {[id1 |-> Row(<<"a">>, SomeCols), id2 |-> Row(<<"b">>, SomeCols)],
     [id1 |-> Row(<<"a">>, SomeCols), id2 |-> NoRow]}

DrawnUsers ==
    {[id1 |-> Row(<<"a">>, c), id2 |-> r] : c \in DrawnCols, r \in {Row(<<"b">>, SomeCols), NoRow}}

InitWith(U, T) ==
    /\ users \in U
    /\ lb = {id \in UserIDs : users[id].exists}
    /\ grp = {id \in UserIDs : users[id].exists}
    /\ tomb \in T
    /\ now = 0
    /\ pc = [p \in Deleters |-> "idle"]
    /\ arg = [p \in Deleters |-> [id |-> "id1", recorded |-> FALSE, existed |-> FALSE]]
    /\ tx = [p \in Deleters |-> NoTx]
    /\ stale = [p \in Deleters |-> FALSE]
    /\ res = [p \in Deleters |-> "none"]
    /\ injected = 0
    /\ ret = "none"
    /\ obs = NoObs
    /\ got = NoGot

NoTombstones == [id \in UserIDs |-> 0]

\* Concurrent DeleteAccount calls.
Init == InitWith(SeedUsers, {NoTombstones, [NoTombstones EXCEPT !["id1"] = 1]})

Next == \E p \in Deleters : DeleteAccount(p)

Spec == Init /\ [][Next]_vars

\* UpdateAccount calls in sequence around one DeleteAccount call.
NextMix ==
    \/ DeleteAccount(1)
    \/ \E id \in UserIDs, in \in FewInputs : UpdateAccount(id, in, FALSE)

SpecMix == Init /\ [][NextMix]_vars

\* One UpdateAccount call on every drawn table with every combination of arguments.
InitUpdate == InitWith(DrawnUsers, {NoTombstones})

NextUpdate ==
    /\ ret = "none"
    /\ \E id \in UserIDs, in \in AllInputs : UpdateAccount(id, in, TRUE)

SpecUpdate == InitUpdate /\ [][NextUpdate]_vars

\* UpdateAccount calls in sequence around one DeleteAccount call, from a store
\* without tombstones, and one GetAccount or GetAccounts call after them.
InitFresh == InitWith(SeedUsers, {NoTombstones})

FewLists == {<<>>, <<"id2", "id1">>}

NextFresh ==
    \/ got = NoGot /\ DeleteAccount(1)
    \/ got = NoGot /\ \E id \in UserIDs, in \in FewInputs : UpdateAccount(id, in, FALSE)
    \/ got = NoGot /\ \E id \in ReadIDs : CallGetAccount(NoTracker, id)
    \/ got = NoGot /\ \E ids \in FewLists : GetAccounts(NoTracker, ids)

SpecFresh == InitFresh /\ [][NextFresh]_vars

\* GetAccount and GetAccounts calls on every drawn table.
VerifyTimes == {NullTime, Time(At(0, 0)), Time(At(1500000000, 0)), Time(At(1500000000, 500000000))}
DeviceLists == {<<>>, <<"dev1", "dev2">>}

ReadUsers ==
    {[id1 |-> [Row(<<"a">>, c) EXCEPT !.verify_time = v, !.devices = d], id2 |-> r] :
        c \in {SomeCols, [i \in 1..5 |-> NullStr]}, v \in VerifyTimes, d \in DeviceLists,
        r \in {[Row(<<"b">>, SomeCols) EXCEPT !.verify_time = Time(At(0, 0))], NoRow}}

Trackers == {NoTracker, Tracker({}), Tracker({"id1"})}

IDLists == UNION {[1..n -> ReadIDs] : n \in 0..MaxIDs}

InitRead == InitWith(ReadUsers, {NoTombstones})

NextRead ==
    \/ \E tracker \in Trackers, id \in ReadIDs : CallGetAccount(tracker, id)
    \/ \E tracker \in Trackers, ids \in IDLists : GetAccounts(tracker, ids)

SpecRead == InitRead /\ [][NextRead]_vars

\* ------------------------------------------------------------------ claims
Done(p) == pc[p] = "done"
Succeeded(p) == Done(p) /\ res[p] = nil
Cascaded(p) == Succeeded(p) /\ tx[p].count > 0
NoStoreError(p) == res[p] \notin StoreErrors
CascadeTrace(recorded) ==
    IF recorded THEN <<"DeleteUser", "Leaderboard", "Group", "Tombstone">>
    ELSE <<"DeleteUser", "Leaderboard", "Group">>

\* C1: two DeleteAccount(id, TRUE) calls that both started while the account row
\* existed, and that the store failed with no non-retryable error, have both
\* returned success once both are done, the row is absent and id has at most one
\* tombstone row.
C1_ConcurrentDeletes ==
    \A p, q \in Deleters :
        (/\ p # q /\ Done(p) /\ Done(q)
         /\ arg[p].id = arg[q].id
         /\ arg[p].recorded /\ arg[q].recorded
         /\ arg[p].existed /\ arg[q].existed
         /\ NoStoreError(p) /\ NoStoreError(q))
        => (/\ res[p] = nil /\ res[q] = nil
            /\ ~users[arg[p].id].exists
            /\ tomb[arg[p].id] <= 1)

\* Two such calls are done, the second after a restart that found the row gone.
C1_Witness ==
    \E p, q \in Deleters :
        /\ p # q /\ Succeeded(p) /\ Succeeded(q)
        /\ arg[p].id = arg[q].id
        /\ arg[p].recorded /\ arg[q].recorded
        /\ arg[p].existed /\ arg[q].existed
        /\ tx[p].count = 1 /\ tx[q].count = 0 /\ tx[q].retried
        /\ tomb[arg[p].id] = 1

\* C2: of the committed DeleteAccount transactions on one id, at most one saw a
\* nonzero count, and exactly one did if the row existed when any of them
\* started; that one ran the whole cascade, every other one ran DeleteUser alone.
C2_OneCascade ==
    \A id \in UserIDs :
        LET committed == {p \in Deleters : Succeeded(p) /\ arg[p].id = id}
            cascaded == {p \in committed : tx[p].count > 0}
        IN /\ Cardinality(cascaded) <= 1
           /\ (\E p \in committed : arg[p].existed) => Cardinality(cascaded) = 1
           /\ \A p \in cascaded :
                /\ tx[p].trace = CascadeTrace(arg[p].recorded)
                /\ tx[p].lbPurged /\ tx[p].grpPurged
           /\ \A p \in committed \ cascaded :
                /\ tx[p].trace = <<"DeleteUser">>
                /\ ~tx[p].lbPurged /\ ~tx[p].grpPurged /\ tx[p].tombInserted = 0

\* Every call of the bound has committed on one id: one cascade, the rest no-ops.
C2_Witness ==
    /\ \A p \in Deleters : Succeeded(p) /\ arg[p].id = "id1" /\ arg[p].existed
    /\ \E p \in Deleters : tx[p].count = 1
    /\ \E p \in Deleters : tx[p].count = 0

\* The store holds the whole cascade of an id or none of it.
WholeCascade ==
    \A id \in UserIDs : /\ users[id].exists <=> id \in lb
                        /\ users[id].exists <=> id \in grp

\* C3: a non-retryable error of the row delete, a purge or the tombstone insert
\* ends the call with that error; the step that returns it leaves the store as
\* it was; the store changes only in the commit of a call that returns success,
\* and then by the whole cascade.
C3_ErrorRollsBack ==
    /\ [](\A p \in Deleters :
            tx[p].fault # nil => Done(p) /\ res[p] = tx[p].fault /\ tx[p].count = 0)
    /\ [](WholeCascade)
    /\ [][/\ \A p \in Deleters :
               (res'[p] # res[p] /\ res'[p] # nil) => store' = store
          /\ store' # store =>
               \E p \in Deleters :
                   /\ pc[p] = "Release" /\ res'[p] = nil /\ tx[p].fault = nil
                   /\ ~users'[arg[p].id].exists]_vars

\* A purge failed after the row delete had run in the transaction; the row, its
\* records and its memberships are all still there.
C3_Witness ==
    \E p \in Deleters :
        /\ Done(p) /\ res[p] = "ErrGroup" /\ tx[p].fault = "ErrGroup"
        /\ users[arg[p].id].exists
        /\ arg[p].id \in lb /\ arg[p].id \in grp

\* C4: every attempt of the closure sees the committed row (an earlier attempt's
\* delete is gone), and a call that returns success, restarted or not, leaves
\* what one conflict-free run leaves: no row, no records, no memberships, and
\* one tombstone row when it ran the cascade with recorded set.
C4_RetryIdempotent ==
    \A p \in Deleters :
        LET id == arg[p].id IN
        /\ (pc[p] \in {"Leaderboard", "Group", "Tombstone", "Release"} /\ ~stale[p])
              => (tx[p].count = 1 <=> users[id].exists)
        /\ Succeeded(p) => ~users[id].exists /\ id \notin lb /\ id \notin grp
        /\ (Cascaded(p) /\ arg[p].recorded) => tomb[id] = 1
        /\ tx[p].tombInserted <= 1

\* A restarted call found the row again, ran the cascade and committed it.
C4_Witness ==
    \E p \in Deleters :
        /\ Cascaded(p) /\ tx[p].retried /\ arg[p].recorded
        /\ tomb[arg[p].id] = 1 /\ tx[p].tombInserted = 1

\* C5: after DeleteAccount(id, TRUE) has deleted an existing account, a second
\* DeleteAccount(id, TRUE) started afterwards returns success (the store raising
\* no error) and does nothing; the account is absent and id has exactly one
\* tombstone row.
C5_DeleteTwice ==
    \A p, q \in Deleters :
        (/\ p # q /\ arg[p].id = arg[q].id
         /\ arg[p].recorded /\ arg[q].recorded
         /\ Cascaded(p) /\ arg[p].existed)
        => (/\ ~users[arg[p].id].exists
            /\ tomb[arg[p].id] = 1
            /\ (Done(q) /\ ~arg[q].existed /\ NoStoreError(q))
                  => (/\ res[q] = nil
                      /\ tx[q].trace = <<"DeleteUser">>
                      /\ tx[q].count = 0 /\ tx[q].tombInserted = 0))

\* The second call is done after the first, on an id whose tombstone the first wrote.
C5_Witness ==
    \E p, q \in Deleters :
        /\ p # q /\ arg[p].id = arg[q].id
        /\ arg[p].recorded /\ arg[q].recorded
        /\ Cascaded(p) /\ arg[p].existed /\ tx[p].tombInserted = 1
        /\ Succeeded(q) /\ ~arg[q].existed /\ ~tx[q].retried
        /\ tomb[arg[p].id] = 1

\* C6: a DeleteAccount call on an id without a row, with recorded set or not,
\* never reaches a purge or the tombstone insert, returns success (the store
\* raising no error), and its commit leaves the store unchanged.
C6_DeleteMissing ==
    /\ [](\A p \in Deleters :
            (pc[p] # "idle" /\ ~arg[p].existed) =>
                /\ pc[p] \in {"DeleteUser", "Release", "done"}
                /\ tx[p].trace \in {<<>>, <<"DeleteUser">>}
                /\ tx[p].count = 0 /\ tx[p].tombInserted = 0
                /\ ~tx[p].lbPurged /\ ~tx[p].grpPurged
                /\ (Done(p) /\ NoStoreError(p)) => res[p] = nil)
    /\ [][\A p \in Deleters :
            (pc[p] # "idle" /\ ~arg[p].existed /\ pc'[p] # pc[p]) => store' = store]_vars

\* A call with recorded set has returned success on an id that never had a row.
C6_Witness ==
    \E p \in Deleters :
        /\ Succeeded(p) /\ arg[p].id = "id2" /\ arg[p].recorded /\ ~arg[p].existed
        /\ tx[p].trace = <<"DeleteUser">>
        /\ tomb["id2"] = 0
        /\ \A q \in Deleters : q # p => arg[q].id # "id2" \/ pc[q] = "idle"

\* The optional text arguments with the column each sets and the field of the
\* account GetAccount returns it in.
TextFields ==
    {[arg |-> "displayName", col |-> "display_name", out |-> "DisplayName"],
     [arg |-> "timezone", col |-> "timezone", out |-> "Timezone"],
     [arg |-> "location", col |-> "location", out |-> "Location"],
     [arg |-> "langTag", col |-> "lang_tag", out |-> "LangTag"],
     [arg |-> "avatarURL", col |-> "avatar_url", out |-> "AvatarUrl"]}

ObservedUpdate == obs.seen /\ ret = nil /\ obs.before[obs.id].exists

\* C7: after a successful UpdateAccount on an existing account, each of
\* display_name, timezone, location, lang_tag and avatar_url is as before when
\* its argument is absent, NULL (read as "") when it is present and empty, and
\* the argument's value when it is present and not empty, whatever the other
\* arguments are; GetAccount before and after shows the same.
C7_TriState ==
    ObservedUpdate =>
        LET id == obs.id
            was == GetAccount(obs.before, NoTracker, id)
            is == GetAccount(users, NoTracker, id)
        IN /\ is.err = nil
           /\ \A f \in TextFields :
                LET a == obs.in[f.arg] IN
                /\ ~a.present =>
                     /\ users[id][f.col] = obs.before[id][f.col]
                     /\ is[f.out] = was[f.out]
                /\ (a.present /\ a.value = <<>>) =>
                     /\ users[id][f.col] = NullStr
                     /\ is[f.out] = <<>>
                /\ (a.present /\ a.value # <<>>) =>
                     /\ users[id][f.col] = Str(a.value)
                     /\ is[f.out] = a.value

\* One call left display_name alone, cleared location and set lang_tag, with a
\* username and metadata in the same call.
C7_Witness ==
    /\ ObservedUpdate /\ obs.id = "id1"
    /\ obs.in.username = <<"a">> /\ obs.in.metadata.present
    /\ ~obs.in.displayName.present /\ users["id1"].display_name = Str(<<"o">>)
    /\ obs.in.location = Present(<<>>) /\ obs.before["id1"].location = Str(<<"o">>)
    /\ GetAccount(users, NoTracker, "id1").Location = <<>>
    /\ obs.in.langTag = Present(<<"g">>) /\ GetAccount(users, NoTracker, "id1").LangTag = <<"g">>

\* C8: after a successful UpdateAccount on an existing account the stored
\* metadata is the argument's value when the argument is present, the empty
\* value included and never NULL, and is as before when the argument is absent.
C8_Metadata ==
    ObservedUpdate =>
        LET m == obs.in.metadata IN
        /\ m.present => users[obs.id].metadata = Str(m.value)
        /\ ~m.present => users[obs.id].metadata = obs.before[obs.id].metadata

\* Metadata was present and empty, and is stored as the empty value.
C8_Witness ==
    /\ ObservedUpdate
    /\ obs.in.metadata = Present(<<>>)
    /\ obs.before[obs.id].metadata = Str(<<"{", "}">>)
    /\ users[obs.id].metadata = [Valid |-> TRUE, String |-> <<>>]

\* The call names a username that another account's row holds.
TakesHeldUsername ==
    /\ obs.seen /\ obs.before[obs.id].exists
    /\ obs.in.username # <<>> /\ ~InvalidChars(obs.in.username)
    /\ \E o \in UserIDs \ {obs.id} :
           obs.before[o].exists /\ obs.before[o].username = Str(obs.in.username)

\* C9: an UpdateAccount on an existing account whose username argument is held
\* by another account never succeeds and leaves every row as it was; the
\* store's unique-key error is returned as "Username is already in use.".
C9_UsernameConflict ==
    TakesHeldUsername =>
        /\ ret # nil
        /\ users = obs.before
        /\ obs.storeErr \in {UniqueViolation, StoreFailure}
        /\ obs.storeErr = UniqueViolation => ret = ErrUsernameInUse

\* The conflicting call also named other columns; none was written.
C9_Witness ==
    /\ TakesHeldUsername /\ ret = ErrUsernameInUse
    /\ obs.id = "id1" /\ obs.in.username = <<"b">>
    /\ obs.in.displayName = Present(<<"d">>) /\ obs.in.metadata = Present(<<"m">>)
    /\ users["id1"].username = Str(<<"a">>)
    /\ users["id1"].display_name # Str(<<"d">>)

\* C10: no two account rows hold the same non-empty username.
C10_UsernameUnique ==
    \A i, j \in UserIDs :
        (/\ i # j /\ users[i].exists /\ users[j].exists
         /\ users[i].username.Valid /\ users[i].username.String # <<>>)
        => users[i].username # users[j].username

\* A username freed by a committed DeleteAccount was taken by the other account
\* with the last UPDATE of the bound.
C10_Witness ==
    /\ ~users["id2"].exists /\ users["id1"].exists
    /\ users["id1"].username = Str(<<"b">>)
    /\ Succeeded(1) /\ arg[1].id = "id2" /\ arg[1].existed
    /\ now = MaxUpdates

\* The optional arguments of UpdateAccount.
OptionalArgs == {"displayName", "timezone", "location", "langTag", "avatarURL", "metadata"}

ValidationErrors == {ErrUsernameInvalid, ErrNoFields}

\* The observed call sent no statement: the clock of the store has not moved and
\* every row is as it was.
NothingSent == ~obs.sent /\ obs.query = NoQuery /\ now = 0 /\ users = obs.before

\* C11: UpdateAccount returns a validation error and sends the store nothing,
\* every row staying as it was, when the username is not empty and holds a
\* whitespace or control character, whatever the optional arguments are, and
\* when the username is empty and every optional argument is absent.
C11_ValidationRejects ==
    obs.seen =>
        /\ (obs.in.username # <<>> /\ \E i \in DOMAIN obs.in.username :
                                          obs.in.username[i] \in {" ", "\t", "\n"})
              => ret = ErrUsernameInvalid /\ ret \in ValidationErrors /\ NothingSent
        /\ (obs.in.username = <<>> /\ \A f \in OptionalArgs : ~obs.in[f].present)
              => ret = ErrNoFields /\ ret \in ValidationErrors /\ NothingSent
        /\ ret \in ValidationErrors => NothingSent

\* A username with a space was rejected in a call that also set every optional
\* argument, on an existing account.
C11_Witness ==
    /\ obs.seen /\ ret = ErrUsernameInvalid /\ NothingSent
    /\ obs.in.username = <<"a", " ", "b">>
    /\ \A f \in OptionalArgs : obs.in[f].present /\ obs.in[f].value # <<>>
    /\ obs.before[obs.id].exists

\* C12: GetAccounts called with an empty id list returns an empty result and no
\* error, and sends the store no query whose IN list has no placeholder.
C12_EmptyListNoQuery ==
    (got.called /\ got.op = "GetAccounts" /\ got.ids = <<>>) =>
        /\ got.err = nil
        /\ got.accounts = <<>>
        /\ ~(got.sent /\ Len(got.query.in) = 0)

\* The ids of a list that have an account row.
Stored(ids) == {ids[i] : i \in DOMAIN ids} \cap {id \in UserIDs : users[id].exists}

\* C13: GetAccounts on a list that is not empty returns no error (the store
\* raising none) and never ErrAccountNotFound; the accounts it returns are those
\* of the ids of the list that have a row, each one once, the ids without a row
\* left out.
C13_AccountsOfStoredIDs ==
    (got.called /\ got.op = "GetAccounts" /\ got.ids # <<>>) =>
        /\ got.err \in {nil, StoreFailure.Message}
        /\ got.err = nil =>
             /\ {got.accounts[k].Id : k \in DOMAIN got.accounts} = Stored(got.ids)
             /\ Len(got.accounts) = Cardinality(Stored(got.ids))
             /\ \A k \in DOMAIN got.accounts :
                    got.accounts[k].Username = users[got.accounts[k].Id].username.String

\* A list naming an id without a row, then an id with one: one account came back.
C13_Witness ==
    /\ got.called /\ got.op = "GetAccounts" /\ got.err = nil
    /\ got.ids = <<"id2", "id1">>
    /\ ~users["id2"].exists
    /\ Len(got.accounts) = 1 /\ got.accounts[1].Id = "id1"

\* A text column as a reader sees it: NULL is "".
Text(col) == IF col.Valid THEN col.String ELSE <<>>

\* The last call was GetAccount and the store answered it.
ReadOne == got.called /\ got.op = "GetAccount" /\ got.err # StoreFailure.Message

\* C14: a GetAccount(id) call after any UpdateAccount and DeleteAccount calls
\* returns ErrAccountNotFound exactly when id has no row then, and otherwise the
\* account whose fields are those of the row as it is then: NULL text columns as
\* "", the devices the account owns, the update time of its last UPDATE.
C14_ReadsCurrentRow ==
    ReadOne =>
        LET id == got.ids[1]
            row == RowOf(users, id)
        IN /\ got.err = ErrAccountNotFound <=> ~row.exists
           /\ ~row.exists => got.accounts = <<>>
           /\ row.exists =>
                /\ got.err = nil /\ Len(got.accounts) = 1
                /\ LET a == got.accounts[1] IN
                   /\ a.Id = id
                   /\ a.Username = Text(row.username)
                   /\ a.DisplayName = Text(row.display_name)
                   /\ a.AvatarUrl = Text(row.avatar_url)
                   /\ a.LangTag = Text(row.lang_tag)
                   /\ a.Location = Text(row.location)
                   /\ a.Timezone = Text(row.timezone)
                   /\ a.Metadata = Text(row.metadata)
                   /\ a.Wallet = Text(row.wallet)
                   /\ a.Email = Text(row.email)
                   /\ a.CustomId = Text(row.custom_id)
                   /\ a.FacebookId = Text(row.facebook_id)
                   /\ a.GoogleId = Text(row.google_id)
                   /\ a.GamecenterId = Text(row.gamecenter_id)
                   /\ a.SteamId = Text(row.steam_id)
                   /\ a.EdgeCount = row.edge_count
                   /\ a.CreateTime = row.create_time
                   /\ a.UpdateTime = row.update_time
                   /\ Len(a.Devices) = Len(row.devices)
                   /\ \A i \in DOMAIN row.devices : a.Devices[i].Id = row.devices[i]

\* GetAccount read id1 after two UPDATEs had renamed it and cleared its display
\* name and a DeleteAccount had removed the other account.
C14_Witness ==
    /\ ReadOne /\ got.ids = <<"id1">> /\ got.err = nil
    /\ got.accounts[1].Username = <<"b">>
    /\ got.accounts[1].DisplayName = <<>>
    /\ got.accounts[1].UpdateTime = MaxUpdates
    /\ users["id1"].display_name = NullStr
    /\ Succeeded(1) /\ arg[1].id = "id2" /\ arg[1].existed

\* C15: in every account GetAccount or GetAccounts returns, the verification
\* time is set exactly when the row's verify_time is not NULL and not at second
\* 0 of the epoch, and is then the stored time in whole seconds.
C15_VerifyTime ==
    (got.called /\ got.err = nil) =>
        \A k \in DOMAIN got.accounts :
            LET a == got.accounts[k]
                stored == users[a.Id].verify_time
            IN /\ a.VerifyTime.present <=> (stored.Valid /\ stored.Time.sec # 0)
               /\ a.VerifyTime.present => a.VerifyTime.Seconds = stored.Time.sec
               /\ ~a.VerifyTime.present => a.VerifyTime = NoTimestamp

\* GetAccounts returned an account verified half a second after a whole second,
\* and one whose verify_time is the epoch.
C15_Witness ==
    /\ got.called /\ got.op = "GetAccounts" /\ got.err = nil /\ Len(got.accounts) = 2
    /\ users["id1"].verify_time = Time(At(1500000000, 500000000))
    /\ users["id2"].verify_time = Time(At(0, 0))
    /\ \E k \in 1..2 : /\ got.accounts[k].Id = "id1"
                       /\ got.accounts[k].VerifyTime = [present |-> TRUE, Seconds |-> 1500000000]
    /\ \E k \in 1..2 : /\ got.accounts[k].Id = "id2"
                       /\ ~got.accounts[k].VerifyTime.present

\* C16: the tombstone rows of an id never become fewer; they become more only
\* in the commit of a DeleteAccount call on that id with recorded set whose
\* delete found the row, and then by one; no GetAccount, GetAccounts or
\* UpdateAccount call, and no DeleteAccount call without recorded, adds one.
C16_TombstonesAppendOnly ==
    [][/\ \A id \in UserIDs :
            /\ tomb'[id] >= tomb[id]
            /\ tomb'[id] # tomb[id] =>
                 /\ tomb'[id] = tomb[id] + 1
                 /\ \E p \in Deleters :
                        /\ pc[p] = "Release" /\ pc'[p] = "done" /\ res'[p] = nil
                        /\ arg[p].id = id /\ arg[p].recorded
                        /\ tx[p].count > 0
                        /\ users[id].exists /\ ~users'[id].exists
       /\ (got' # got \/ now' # now \/ ret' # ret) => tomb' = tomb
       /\ \A p \in Deleters : (pc'[p] # pc[p] /\ ~arg'[p].recorded) => tomb' = tomb]_vars

\* One account was deleted with recorded set and has its tombstone, an UPDATE
\* and a GetAccounts call for both ids came after it, and the other id has none.
C16_Witness ==
    /\ Cascaded(1) /\ arg[1].recorded /\ arg[1].id = "id1"
    /\ tomb = [id1 |-> 1, id2 |-> 0]
    /\ now >= 1 /\ users["id2"].exists /\ users["id2"].update_time >= 1
    /\ got.called /\ got.op = "GetAccounts" /\ got.ids = <<"id2", "id1">> /\ got.err = nil

\* The columns in the order UpdateAccount looks at its arguments.
FieldOrder ==
    <<"username", "display_name", "timezone", "location", "lang_tag", "avatar_url", "metadata">>

Rank(col) == CHOOSE i \in DOMAIN FieldOrder : FieldOrder[i] = col

\* The value of the argument that sets a column.
ArgValue(in, col) ==
    IF col = "username" THEN in.username
    ELSE IF col = "metadata" THEN in.metadata.value
    ELSE LET f == CHOOSE g \in TextFields : g.col = col IN in[f.arg].value

\* C17: in the statement UpdateAccount sends, the clauses come in the fixed
\* order of the fields; the clauses that bind a value hold $1, ..., $k in that
\* order, a NULL clause holding none; the i-th parameter is the argument of the
\* clause that holds $i; and the WHERE clause holds $(k+1), bound to the account
\* id as the last of k+1 parameters.
C17_Placeholders ==
    (obs.seen /\ obs.sent) =>
        LET q == obs.query
            st == q.statements
            binds == {j \in DOMAIN st : st[j].placeholder # 0}
            k == Cardinality(binds)
        IN /\ Len(st) > 0
           /\ \A i, j \in DOMAIN st : i < j => Rank(st[i].col) < Rank(st[j].col)
           /\ \A j \in binds :
                /\ st[j].placeholder = Cardinality({i \in binds : i <= j})
                /\ q.params[st[j].placeholder] = ArgValue(obs.in, st[j].col)
                /\ ArgValue(obs.in, st[j].col) # <<>> \/ st[j].col = "metadata"
           /\ \A j \in DOMAIN st \ binds :
                st[j].col \notin {"username", "metadata"} /\ ArgValue(obs.in, st[j].col) = <<>>
           /\ q.where = k + 1
           /\ Len(q.params) = k + 1
           /\ q.params[k + 1] = obs.id

\* Two NULL clauses stand between bound ones: username $1, display_name NULL,
\* timezone $2, lang_tag NULL, avatar_url $3, metadata $4, and the id is $5.
C17_Witness ==
    /\ obs.seen /\ obs.sent /\ obs.id = "id2"
    /\ obs.query.statements =
         <<[col |-> "username", placeholder |-> 1], [col |-> "display_name", placeholder |-> 0],
           [col |-> "timezone", placeholder |-> 2], [col |-> "lang_tag", placeholder |-> 0],
           [col |-> "avatar_url", placeholder |-> 3], [col |-> "metadata", placeholder |-> 4]>>
    /\ obs.query.params = << <<"a">>, <<"t">>, <<"v">>, <<"m">>, "id2" >>
    /\ obs.query.where = 5

\* C18: in every attempt of the closure the statements run in the order row
\* delete, leaderboard purge, group purge, tombstone insert; the leaderboard
\* purge has run only after a delete that reported a nonzero count, the group
\* purge only after the leaderboard purge succeeded, the tombstone insert only
\* after the group purge succeeded and with recorded set; and a purge runs in
\* the transaction only: until the commit the store still holds the row, its
\* records and its memberships.
C18_StepOrder ==
    \A p \in Deleters :
        LET t == tx[p].trace
            full == CascadeTrace(arg[p].recorded)
            id == arg[p].id
        IN /\ Len(t) <= Len(full)
           /\ \A i \in DOMAIN t : t[i] = full[i]
           /\ Len(t) >= 2 => tx[p].count > 0
           /\ Len(t) >= 3 => tx[p].lbPurged
           /\ Len(t) >= 4 => tx[p].grpPurged /\ arg[p].recorded
           /\ (tx[p].lbPurged \/ tx[p].grpPurged \/ tx[p].tombInserted > 0) => tx[p].count > 0
           /\ t # <<>> => pc[p] \in {"Leaderboard", "Group", "Tombstone", "Release", "done"}
           /\ (Len(t) >= 2 /\ InBody(p) /\ ~stale[p]) =>
                  users[id].exists /\ id \in lb /\ id \in grp

\* Both purges have run in an open transaction that is about to insert the
\* tombstone; the store is untouched.
C18_Witness ==
    \E p \in Deleters :
        /\ pc[p] = "Tombstone" /\ ~stale[p] /\ arg[p].recorded
        /\ tx[p].trace = <<"DeleteUser", "Leaderboard", "Group">>
        /\ tx[p].count = 1 /\ tx[p].lbPurged /\ tx[p].grpPurged /\ tx[p].tombInserted = 0
        /\ users[arg[p].id].exists /\ arg[p].id \in lb /\ arg[p].id \in grp

\* C19: in every state reached from a store without tombstones, an id that has
\* a tombstone row has no account row.
C19_TombstoneMeansDeleted ==
    \A id \in UserIDs : tomb[id] > 0 => ~users[id].exists

\* A restarted DeleteAccount committed its delete together with the tombstone
\* while the other account, updated meanwhile, stays without one.
C19_Witness ==
    /\ Cascaded(1) /\ arg[1].recorded /\ tx[1].retried /\ arg[1].id = "id2"
    /\ tomb = [id1 |-> 0, id2 |-> 1]
    /\ ~users["id2"].exists
    /\ users["id1"].exists /\ users["id1"].update_time = MaxUpdates
    /\ got = NoGot

\* C20: an UpdateAccount call whose arguments pass validation and whose UPDATE
\* reaches the store, on an id that has no account row (it never had one or a
\* DeleteAccount removed it), changes no row and creates none, and returns
\* success unless the store itself failed; it never returns ErrAccountNotFound.
C20_UpdateMissing ==
    [][\A id \in UserIDs : \A in \in FewInputs :
          (/\ ~users[id].exists
           /\ now' = now + 1
           /\ ~UsernameRejected(in.username)
           /\ Len(BuildStatements(in).statements) > 0
           /\ UpdateAccount(id, in, FALSE))
          => (/\ users' = users
              /\ ~users'[id].exists
              /\ ret' \in {nil, StoreFailure.Message}
              /\ ret' # ErrAccountNotFound)]_vars

\* The one UPDATE executed so far returned success and the only account row is
\* untouched: it named the id that has no row.
C20_Witness ==
    /\ pc[1] = "idle" /\ ~users["id2"].exists
    /\ now = 1 /\ ret = nil
    /\ users["id1"].exists /\ users["id1"].update_time = 0
====
